---- MODULE Spec2Model ----
(***************************************************************************)
(* Cable datasheet parameter extraction (src/app.py).                      *)
(*                                                                         *)
(* Texts are TLA+ strings handled character by character: a character is   *)
(* a string of length one, s[i] is SubSeq(s, i, i).  Python's None is the  *)
(* empty tuple <<>> and a present value v is the one-element tuple <<v>>.  *)
(* A float is a record [i |-> integer part, f |-> fraction in units of     *)
(* 10^-FracDigits]; the texts of the model carry at most FracDigits        *)
(* fraction digits, so no rounding occurs.                                 *)
(***************************************************************************)
EXTENDS Integers, Sequences, FiniteSets, TLC

VARIABLES
    text_chunks,   \* ocr_pdf_to_text: the OCR text of the pages read so far
    phase,         \* position of the request handler
    text,          \* api_extract: the joined OCR text
    locals,        \* extract_cable_parameters: the detectors' results
    result,        \* extract_cable_parameters: the returned dict
    material,      \* infer_k_and_beta: the argument of a direct call
    kb,            \* infer_k_and_beta: the value returned by that call
    pdf            \* build_pdf_report: the canvas and the drawing position

vars == <<text_chunks, phase, text, locals, result, material, kb, pdf>>

-----------------------------------------------------------------------------
(* Python values *)

None == <<>>
Some(v) == <<v>>
Val(o) == o[1]

\* bool(x) of an optional string: None and "" are falsy
TruthyStr(o) == o # None /\ Val(o) # ""

\* a or b on optional strings
OrElse(a, b) == IF TruthyStr(a) THEN a ELSE b

Min(a, b) == IF a < b THEN a ELSE b

-----------------------------------------------------------------------------
(* Characters and strings *)

\* s[i], counted from 1; "" outside the string
Char(s, i) == IF 1 <= i /\ i <= Len(s) THEN SubSeq(s, i, i) ELSE ""

UpperLetters ==
    <<"A","B","C","D","E","F","G","H","I","J","K","L","M",
      "N","O","P","Q","R","S","T","U","V","W","X","Y","Z">>
LowerLetters ==
    <<"a","b","c","d","e","f","g","h","i","j","k","l","m",
      "n","o","p","q","r","s","t","u","v","w","x","y","z">>
Digits == <<"0","1","2","3","4","5","6","7","8","9">>

UpperSet == {UpperLetters[k] : k \in 1..26}
LowerSet == {LowerLetters[k] : k \in 1..26}
DigitSet == {Digits[k] : k \in 1..10}

LowerChar(c) ==
    IF c \in UpperSet
    THEN LowerLetters[CHOOSE k \in 1..26 : UpperLetters[k] = c]
    ELSE c
UpperChar(c) ==
    IF c \in LowerSet
    THEN UpperLetters[CHOOSE k \in 1..26 : LowerLetters[k] = c]
    ELSE c

\* str.lower(), character by character (halving keeps the recursion shallow)
RECURSIVE Lower(_)
Lower(s) ==
    IF Len(s) = 0 THEN ""
    ELSE IF Len(s) = 1 THEN LowerChar(s)
    ELSE LET h == Len(s) \div 2
         IN  Lower(SubSeq(s, 1, h)) \o Lower(SubSeq(s, h + 1, Len(s)))

\* str.upper()
RECURSIVE Upper(_)
Upper(s) ==
    IF Len(s) = 0 THEN ""
    ELSE IF Len(s) = 1 THEN UpperChar(s)
    ELSE LET h == Len(s) \div 2
         IN  Upper(SubSeq(s, 1, h)) \o Upper(SubSeq(s, h + 1, Len(s)))

\* s[i:].startswith(p), i counted from 1
StartsAt(s, i, p) ==
    /\ i >= 1
    /\ i + Len(p) - 1 <= Len(s)
    /\ SubSeq(s, i, i + Len(p) - 1) = p

\* p in s
Contains(s, p) == \E i \in 1..(Len(s) - Len(p) + 1) : StartsAt(s, i, p)

\* regex classes: \s, \d, \w
SpaceSet == {" ", "\t", "\n", "\r", "\f"}
WordSet == LowerSet \cup UpperSet \cup DigitSet \cup {"_"}
IsSpace(c) == c \in SpaceSet
IsDigit(c) == c \in DigitSet
IsWord(c) == c \in WordSet
\* the characters str.splitlines() breaks a text on
LineBreakSet == {"\n", "\r", "\f"}

\* regex \b at the gap before s[i] (i in 1..Len(s)+1)
Boundary(s, i) ==
    LET before == i > 1 /\ IsWord(Char(s, i - 1))
        after  == i <= Len(s) /\ IsWord(Char(s, i))
    IN  before # after

\* the index after the longest run of characters of the set C starting at i
RECURSIVE RunEnd(_, _, _)
RunEnd(s, i, C) ==
    IF i <= Len(s) /\ Char(s, i) \in C THEN RunEnd(s, i + 1, C) ELSE i

\* the index of the first character from i on that is in C, Len(s)+1 if none
RunEndNot(s, i, C) ==
    IF \A j \in i..Len(s) : Char(s, j) \notin C THEN Len(s) + 1
    ELSE CHOOSE j \in i..Len(s) :
             Char(s, j) \in C /\ \A k \in i..(j - 1) : Char(s, k) \notin C

\* the least element of a non-empty set of integers
Least(S) == CHOOSE i \in S : \A j \in S : i <= j

\* str.strip()
RECURSIVE LStripIdx(_, _)
LStripIdx(s, i) ==
    IF i <= Len(s) /\ IsSpace(Char(s, i)) THEN LStripIdx(s, i + 1) ELSE i
RECURSIVE RStripIdx(_, _)
RStripIdx(s, j) ==
    IF j >= 1 /\ IsSpace(Char(s, j)) THEN RStripIdx(s, j - 1) ELSE j
Strip(s) ==
    LET a == LStripIdx(s, 1)
        b == RStripIdx(s, Len(s))
    IN  IF a > b THEN "" ELSE SubSeq(s, a, b)

\* str.splitlines(): "\r\n" is one break, no empty last line after a final break
RECURSIVE SplitFrom(_, _)
SplitFrom(s, start) ==
    IF start > Len(s) THEN <<>>
    ELSE LET i == RunEndNot(s, start, LineBreakSet)
             nxt == IF Char(s, i) = "\r" /\ Char(s, i + 1) = "\n"
                    THEN i + 2 ELSE i + 1
         IN  <<SubSeq(s, start, i - 1)>> \o SplitFrom(s, nxt)
SplitLines(s) == SplitFrom(s, 1)

\* sep.join(parts)
RECURSIVE Join(_, _)
Join(sep, parts) ==
    IF parts = <<>> THEN ""
    ELSE IF Len(parts) = 1 THEN parts[1]
    ELSE parts[1] \o sep \o Join(sep, Tail(parts))

\* parts[:n]
Take(parts, n) == SubSeq(parts, 1, Min(n, Len(parts)))

-----------------------------------------------------------------------------
(* Numbers *)

FracDigits == 7
FracUnit == 10 ^ FracDigits

DigitVal(c) == (CHOOSE k \in 1..10 : Digits[k] = c) - 1

RECURSIVE ParseInt(_, _)
\* the value of the digit string s, acc the value read so far
ParseInt(s, acc) ==
    IF s = "" THEN acc ELSE ParseInt(Tail(s), 10 * acc + DigitVal(Head(s)))

RECURSIVE PadRight(_, _)
PadRight(s, n) == IF Len(s) >= n THEN SubSeq(s, 1, n) ELSE PadRight(s \o "0", n)

ValueError == [error |-> "ValueError"]

\* float(s) for s of the form digits or digits.digits; ValueError otherwise
Float(s) ==
    LET e == RunEnd(s, 1, DigitSet)
    IN  IF e = 1 THEN ValueError
        ELSE IF e > Len(s) THEN [i |-> ParseInt(s, 0), f |-> 0]
        ELSE IF Char(s, e) = "." /\ e < Len(s)
                /\ RunEnd(s, e + 1, DigitSet) = Len(s) + 1
        THEN [i |-> ParseInt(SubSeq(s, 1, e - 1), 0),
              f |-> ParseInt(PadRight(SubSeq(s, e + 1, Len(s)), FracDigits), 0)]
        ELSE ValueError

Num(n) == [i |-> n, f |-> 0]
Less(a, b) == a.i < b.i \/ (a.i = b.i /\ a.f < b.f)

RECURSIVE MaxOf(_)
\* max(values) of a non-empty list
MaxOf(values) ==
    IF Len(values) = 1 THEN values[1]
    ELSE LET m == MaxOf(Tail(values))
         IN  IF Less(values[1], m) THEN m ELSE values[1]

\* s.replace(",", ".")
RECURSIVE ReplaceComma(_)
ReplaceComma(s) ==
    IF Len(s) = 0 THEN ""
    ELSE IF Len(s) = 1 THEN (IF s = "," THEN "." ELSE s)
    ELSE LET h == Len(s) \div 2
         IN  ReplaceComma(SubSeq(s, 1, h)) \o ReplaceComma(SubSeq(s, h + 1, Len(s)))

\* the index after the regex token \d+(?:[seps]\d+)? that starts at the digit s[i]
NumTokenEnd(s, i, seps) ==
    LET e == RunEnd(s, i, DigitSet)
    IN  IF Char(s, e) \in seps /\ IsDigit(Char(s, e + 1))
        THEN RunEnd(s, e + 1, DigitSet)
        ELSE e

\* re.findall(r"\d+(?:[seps]\d+)?", s) from index i on
RECURSIVE FindNums(_, _, _)
FindNums(s, i, seps) ==
    LET d == RunEndNot(s, i, DigitSet)
        e == NumTokenEnd(s, d, seps)
    IN  IF d > Len(s) THEN <<>>
        ELSE <<SubSeq(s, d, e - 1)>> \o FindNums(s, e, seps)

-----------------------------------------------------------------------------
(* Text parsing helpers *)

RECURSIVE NonEmptyStripped(_)
NonEmptyStripped(ls) ==
    IF ls = <<>> THEN <<>>
    ELSE (IF Strip(ls[1]) # "" THEN <<Strip(ls[1])>> ELSE <<>>)
         \o NonEmptyStripped(Tail(ls))

get_first_nonempty_lines(t, n) == Take(NonEmptyStripped(SplitLines(t)), n)

\* r'(\d+(?:\.\d+)?)\s*k\s*?v' matched at index i of h, under re.IGNORECASE
HeaderVoltageMatchAt(h, i) ==
    /\ IsDigit(Char(h, i))
    /\ LET a == RunEnd(h, NumTokenEnd(h, i, {"."}), SpaceSet)
           b == RunEnd(h, a + 1, SpaceSet)
       IN  LowerChar(Char(h, a)) = "k" /\ LowerChar(Char(h, b)) = "v"

extract_header_voltage_and_material(lines) ==
    LET header == Lower(Join(" ", Take(lines, 2)))
        M == {i \in 1..Len(header) : HeaderVoltageMatchAt(header, i)}
        parsed == LET i == Least(M)
                  IN  Float(SubSeq(header, i, NumTokenEnd(header, i, {"."}) - 1))
        voltage_kv == IF M = {} THEN None
                      ELSE IF parsed = ValueError THEN None
                      ELSE Some(parsed)
        mat == IF Contains(header, "copper") \/ Contains(header, " cu ")
               THEN Some("Copper")
               ELSE IF \/ Contains(header, "aluminium")
                       \/ Contains(header, "aluminum")
                       \/ Contains(header, " al ")
               THEN Some("Aluminium")
               ELSE None
    IN  <<voltage_kv, mat>>

\* r'(\b[a-z]+)\s+outer\s+sheath' matched at index i of h
OuterSheathMatchAt(h, i) ==
    /\ Char(h, i) \in LowerSet
    /\ Boundary(h, i)
    /\ LET e == RunEnd(h, i, LowerSet)
           a == RunEnd(h, e, SpaceSet)
           b == RunEnd(h, a + 5, SpaceSet)
       IN  /\ a > e
           /\ StartsAt(h, a, "outer")
           /\ b > a + 5
           /\ StartsAt(h, b, "sheath")

extract_header_insulation_and_outer(lines) ==
    LET header == Lower(Join(" ", Take(lines, 3)))
        insulation ==
            IF Contains(header, "xlpe") THEN Some("XLPE")
            ELSE IF Contains(header, "epr") THEN Some("EPR")
            ELSE IF Contains(header, "pvc") THEN Some("PVC")
            ELSE IF \/ Contains(header, "pe insulation")
                    \/ Contains(header, "pe insulated")
                    \/ Contains(header, " pe ")
            THEN Some("PE")
            ELSE IF Contains(header, "oil-filled") \/ Contains(header, "oil filled")
            THEN Some("oil")
            ELSE None
        M == {i \in 1..Len(header) : OuterSheathMatchAt(header, i)}
        mat == LET i == Least(M)
               IN  Upper(SubSeq(header, i, RunEnd(header, i, LowerSet) - 1))
        outer_sheath ==
            IF M = {} THEN None
            ELSE IF mat \in {"PE", "PVC", "XLPE", "EPR", "OIL"} THEN Some(mat)
            ELSE None
    IN  <<insulation, outer_sheath>>

\* re.search(r'\b(w1|w2|..)\b[^,\n]*target', h) for the words ws
WordThen(h, ws, target) ==
    \E w \in ws : \E i \in 1..Len(h) :
        /\ StartsAt(h, i, w)
        /\ Boundary(h, i)
        /\ Boundary(h, i + Len(w))
        /\ \E j \in (i + Len(w))..RunEndNot(h, i + Len(w), {",", "\n"}) :
               StartsAt(h, j, target)

CopperWords == {"copper", "cu"}
AluminiumWords == {"aluminium", "aluminum", "al"}

HeaderConductor(header) ==
    IF WordThen(header, CopperWords, "conductor") THEN Some("Copper")
    ELSE IF WordThen(header, AluminiumWords, "conductor") THEN Some("Aluminium")
    ELSE None

HeaderSheath(header) ==
    IF WordThen(header, AluminiumWords, "sheath") THEN Some("aluminium")
    ELSE IF WordThen(header, CopperWords, "sheath") THEN Some("copper")
    ELSE IF WordThen(header, {"lead"}, "sheath") THEN Some("lead")
    ELSE IF WordThen(header, {"steel"}, "sheath") THEN Some("steel")
    ELSE IF WordThen(header, {"bronze"}, "sheath") THEN Some("bronze")
    ELSE None

extract_conductor_and_sheath_material_from_header(lines) ==
    LET header == Lower(Join(" ", Take(lines, 4)))
    IN  <<HeaderConductor(header), HeaderSheath(header)>>

\* the weak heuristic without its "and not has_al"
detect_conductor_material_global_CopperWins(t) ==
    LET lower == Lower(t)
        has_copper == Contains(lower, "copper") \/ Contains(lower, " cu ")
        has_al == \/ Contains(lower, "aluminium")
                  \/ Contains(lower, "aluminum")
                  \/ Contains(lower, " al ")
    IN  IF Contains(lower, "copper conductor") \/ Contains(lower, "cu conductor")
        THEN Some("Copper")
        ELSE IF \/ Contains(lower, "aluminium conductor")
                \/ Contains(lower, "aluminum conductor")
                \/ Contains(lower, "al conductor")
        THEN Some("Aluminium")
        ELSE IF has_copper THEN Some("Copper")
        ELSE IF has_al THEN Some("Aluminium")
        ELSE None

detect_conductor_material_global(t) ==
    LET lower == Lower(t)
        has_copper == Contains(lower, "copper") \/ Contains(lower, " cu ")
        has_al == \/ Contains(lower, "aluminium")
                  \/ Contains(lower, "aluminum")
                  \/ Contains(lower, " al ")
    IN  IF Contains(lower, "copper conductor") \/ Contains(lower, "cu conductor")
        THEN Some("Copper")
        ELSE IF \/ Contains(lower, "aluminium conductor")
                \/ Contains(lower, "aluminum conductor")
                \/ Contains(lower, "al conductor")
        THEN Some("Aluminium")
        ELSE IF has_copper /\ ~has_al THEN Some("Copper")
        ELSE IF has_al /\ ~has_copper THEN Some("Aluminium")
        ELSE None

RatedClass == DigitSet \cup {"/", "."} \cup SpaceSet

\* r"RATED\s+VOLTAGE\s*:\s*([0-9/\s\.]+)kV" matched at index i of the
\* lower-cased text (re.IGNORECASE): <<start, end>> of group 1, or <<>>
RatedGroupAt(lower, i) ==
    LET a == RunEnd(lower, i + 5, SpaceSet)
        b == RunEnd(lower, a + 7, SpaceSet)
        c == RunEnd(lower, b + 1, SpaceSet)
        e == RunEnd(lower, b + 1, RatedClass)
    IN  IF /\ StartsAt(lower, i, "rated")
           /\ a > i + 5
           /\ StartsAt(lower, a, "voltage")
           /\ Char(lower, b) = ":"
           /\ e > b + 1
           /\ StartsAt(lower, e, "kv")
        THEN (IF c < e THEN <<c, e - 1>> ELSE <<e - 1, e - 1>>)
        ELSE <<>>

\* the floats of the tokens toks, a token float() rejects being skipped
RECURSIVE Floats(_)
Floats(toks) ==
    IF toks = <<>> THEN <<>>
    ELSE LET v == Float(ReplaceComma(toks[1]))
         IN  (IF v = ValueError THEN <<>> ELSE <<v>>) \o Floats(Tail(toks))

extract_rated_voltages(t) ==
    LET lower == Lower(t)
        M == {i \in 1..Len(lower) : RatedGroupAt(lower, i) # <<>>}
        g == RatedGroupAt(lower, Least(M))
    IN  IF M = {} THEN <<>>
        ELSE Floats(FindNums(SubSeq(lower, g[1], g[2]), 1, {"."}))

keywords == <<"short", "circuit", "fault", "ik", "isc">>

HasKeyword(lower) == \E k \in 1..Len(keywords) : Contains(lower, keywords[k])

\* 0 < val < 1000
InRange(val) == (val.i > 0 \/ val.f > 0) /\ val.i < 1000

RECURSIVE KeepInRange(_)
KeepInRange(vals) ==
    IF vals = <<>> THEN <<>>
    ELSE (IF InRange(vals[1]) THEN <<vals[1]>> ELSE <<>>) \o KeepInRange(Tail(vals))

\* the candidates one line adds: every number of the line in (0, 1000)
LineCandidates(line) == KeepInRange(Floats(FindNums(line, 1, {".", ","})))

RECURSIVE SccPass1(_)
SccPass1(lines) ==
    IF lines = <<>> THEN <<>>
    ELSE LET lower == Lower(lines[1])
         IN  (IF HasKeyword(lower) /\ (Contains(lower, "k") /\ Contains(lower, "a"))
              THEN LineCandidates(lines[1]) ELSE <<>>)
             \o SccPass1(Tail(lines))

RECURSIVE SccPass2(_)
SccPass2(lines) ==
    IF lines = <<>> THEN <<>>
    ELSE LET lower == Lower(lines[1])
         IN  (IF ~Contains(lower, "k") \/ ~Contains(lower, "a")
              THEN <<>> ELSE LineCandidates(lines[1]))
             \o SccPass2(Tail(lines))

\* pass 2 run whether or not pass 1 found a candidate
extract_short_circuit_current_BothPasses(t) ==
    LET lines == SplitLines(t)
        candidates == SccPass1(lines) \o SccPass2(lines)
    IN  IF candidates = <<>> THEN None ELSE Some(MaxOf(candidates))

extract_short_circuit_current(t) ==
    LET lines == SplitLines(t)
        pass1 == SccPass1(lines)
        candidates == IF pass1 = <<>> THEN SccPass2(lines) ELSE pass1
    IN  IF candidates = <<>> THEN None ELSE Some(MaxOf(candidates))

TimeUnits == {"s", "sec", "secs", "second", "seconds"}

\* r'(\d+(?:[.,]\d+)?)\s*(s|sec|secs|second|seconds)\b' matched at index i
\* of the lower-cased string
TimeMatchAt(lower, i) ==
    /\ IsDigit(Char(lower, i))
    /\ LET a == RunEnd(lower, NumTokenEnd(lower, i, {".", ","}), SpaceSet)
       IN  \E u \in TimeUnits :
               StartsAt(lower, a, u) /\ Boundary(lower, a + Len(u))

\* re.search of that pattern: float(group(1).replace(",", ".")), or <<>>
TimeSearch(lower) ==
    LET M == {i \in 1..Len(lower) : TimeMatchAt(lower, i)}
        i == Least(M)
    IN  IF M = {} THEN <<>>
        ELSE <<Float(ReplaceComma(
                 SubSeq(lower, i, NumTokenEnd(lower, i, {".", ","}) - 1)))>>

RECURSIVE TimePass1(_)
TimePass1(lines) ==
    IF lines = <<>> THEN None
    ELSE LET lower == Lower(lines[1])
             m == IF HasKeyword(lower) THEN TimeSearch(lower) ELSE <<>>
         IN  IF m # <<>> /\ m[1] # ValueError THEN Some(m[1])
             ELSE TimePass1(Tail(lines))

extract_time_seconds(t) ==
    LET first == TimePass1(SplitLines(t))
        m == TimeSearch(Lower(t))
    IN  IF first # None THEN first
        ELSE IF m # <<>> /\ m[1] # ValueError THEN Some(m[1])
        ELSE None

\* Table I without its aluminium rows
TableRow_NoAluminium(mat_key) ==
    IF mat_key = "copper"
    THEN <<[K |-> Num(226), beta |-> [i |-> 234, f |-> 5 * (FracUnit \div 10)]]>>
    ELSE <<>>

\* the row of Table I for a lower-cased key, <<>> when it has none
TableRow(mat_key) ==
    IF mat_key = "copper"
    THEN <<[K |-> Num(226), beta |-> [i |-> 234, f |-> 5 * (FracUnit \div 10)]]>>
    ELSE IF mat_key \in {"aluminium", "aluminum"}
    THEN <<[K |-> Num(148), beta |-> Num(228)]>>
    ELSE <<>>

\* the lookup without material.lower()
infer_k_and_beta_CaseSensitive(mat) ==
    IF ~TruthyStr(mat) THEN <<None, None>>
    ELSE LET row == TableRow(Val(mat))
         IN  IF row = <<>> THEN <<None, None>>
             ELSE <<Some(row[1].K), Some(row[1].beta)>>

infer_k_and_beta(mat) ==
    IF ~TruthyStr(mat) THEN <<None, None>>
    ELSE LET row == TableRow(Lower(Val(mat)))
         IN  IF row = <<>> THEN <<None, None>>
             ELSE <<Some(row[1].K), Some(row[1].beta)>>

preferred == <<400, 220, 132, 66, 33, 11>>

\* abs(v - p) < 1e-6
Near(v, p) ==
    LET tol == FracUnit \div 1000000
    IN  \/ v.i = p /\ v.f < tol
        \/ v.i = p - 1 /\ FracUnit - v.f < tol

\* the two nested loops from preferred[pi], rated_voltages[vi] on
RECURSIVE PreferredScan(_, _, _)
PreferredScan(rated_voltages, pi, vi) ==
    IF pi > Len(preferred) THEN None
    ELSE IF vi > Len(rated_voltages) THEN PreferredScan(rated_voltages, pi + 1, 1)
    ELSE IF Near(rated_voltages[vi], preferred[pi]) THEN Some(rated_voltages[vi])
    ELSE PreferredScan(rated_voltages, pi, vi + 1)

\* the largest rated voltage, the standard values not preferred
choose_main_voltage_Max(header_voltage, rated_voltages) ==
    IF rated_voltages # <<>> THEN Some(MaxOf(rated_voltages)) ELSE header_voltage

choose_main_voltage(header_voltage, rated_voltages) ==
    IF rated_voltages # <<>>
    THEN LET hit == PreferredScan(rated_voltages, 1, 1)
         IN  IF hit # None THEN hit ELSE Some(MaxOf(rated_voltages))
    ELSE header_voltage

\* kValue and beta set only when the material is known
KBetaFields_NoElse(conductor_material) ==
    IF TruthyStr(conductor_material)
    THEN LET r == infer_k_and_beta(conductor_material)
         IN  [kValue |-> r[1], beta |-> r[2]]
    ELSE <<>>

\* kValue and beta as either branch of the final if sets them
KBetaFields(conductor_material) ==
    IF TruthyStr(conductor_material)
    THEN LET r == infer_k_and_beta(conductor_material)
         IN  [kValue |-> r[1], beta |-> r[2]]
    ELSE [kValue |-> None, beta |-> None]

\* the locals of extract_cable_parameters before the dict is built
Detect(t) ==
    LET lines == get_first_nonempty_lines(t, 8)
        hv == extract_header_voltage_and_material(lines)
        io == extract_header_insulation_and_outer(lines)
        cs == extract_conductor_and_sheath_material_from_header(lines)
    IN  [lines |-> lines,
         header_voltage |-> hv[1], header_material |-> hv[2],
         insulation |-> io[1], outer_sheath |-> io[2],
         header_conductor |-> cs[1], sheath_material |-> cs[2],
         global_material |-> detect_conductor_material_global(t)]

\* the header pattern alone, the two fallbacks forgotten
ConductorMaterial_HeaderOnly(d) == d.header_conductor

\* the global scan consulted before the header pattern
ConductorMaterial_GlobalFirst(d) ==
    OrElse(d.global_material, OrElse(d.header_conductor, d.header_material))

\* the resolved conductor material: a or b or c
ConductorMaterial(d) ==
    OrElse(d.header_conductor, OrElse(d.global_material, d.header_material))

\* the dict extract_cable_parameters returns
BuildResult(t, d) ==
    LET conductor_material == ConductorMaterial(d)
        rated_voltages == extract_rated_voltages(t)
        kbeta == KBetaFields(conductor_material)
    IN  [voltageKv |-> choose_main_voltage(d.header_voltage, rated_voltages),
         sccKa |-> extract_short_circuit_current(t),
         timeSec |-> extract_time_seconds(t),
         material |-> conductor_material,
         conductorMaterial |-> conductor_material,
         sheathMaterial |-> d.sheath_material,
         insulationMaterial |-> d.insulation,
         outerSheathMaterial |-> d.outer_sheath,
         ratedVoltages |-> rated_voltages,
         rawTextSample |-> Join("\n", d.lines)] @@ kbeta

extract_cable_parameters(t) == BuildResult(t, Detect(t))

-----------------------------------------------------------------------------
(* POST /api/extract: the pages of the upload are recognised one by one,   *)
(* joined, and the parameters extracted from the joined text.              *)

MaxPages == 2

\* what the OCR collaborator may return for one page
PageTexts ==
    { "",
      "Drawn by: J. Doe",
      "400kV AL 1Cx2500SQmm XLPE INSULATED CABLE",
      "CROSS SECTION\n\n  OF 132 kV CABLE ",
      "RATED VOLTAGE : 220/400/420 kV",
      "Rated voltage: 72.5/420 KV\nMax 63,5 kA, 1000 V, rev 0",
      "RATED VOLTAGE : 420 / 399.9999995 kV",
      "Fault current Isc = 40 kA for 3 sec",
      "6 segment copper conductor, smooth aluminium sheath and PE outer sheath",
      "Aluminium core conductor\ncopper wire screen, lead sheath, OIL outer sheath",
      "AL core conductor\noil-filled, Cu screen and steel sheath\nIk 0,5 s",
      "(Cu) stranded conductor\tPVC insulation",
      "EPR insulated, 1xCu conductor\r\nShort circuit 1 s" }

NoLocals == [lines |-> <<>>]
NoResult == [error |-> "none"]
NoPdf == [page |-> 0]

Init ==
    /\ text_chunks = <<>>
    /\ phase = "ocr"
    /\ text = ""
    /\ locals = NoLocals
    /\ result = NoResult
    /\ material = None
    /\ kb = <<None, None>>
    /\ pdf = NoPdf

\* ocr_pdf_to_text: one more page recognised
OcrPage ==
    /\ phase = "ocr"
    /\ Len(text_chunks) < MaxPages
    /\ \E t \in PageTexts : text_chunks' = Append(text_chunks, t)
    /\ UNCHANGED <<phase, text, locals, result, material, kb, pdf>>

\* api_extract after the last page: join, extract, answer
Extract ==
    /\ phase = "ocr"
    /\ text' = Join("\n", text_chunks)
    /\ locals' = Detect(text')
    /\ result' = BuildResult(text', locals')
    /\ phase' = "done"
    /\ UNCHANGED <<text_chunks, material, kb, pdf>>

Next == OcrPage \/ Extract

Spec == Init /\ [][Next]_vars

-----------------------------------------------------------------------------
(* A direct call of infer_k_and_beta on a material tag.                    *)

RECURSIVE CaseVariants(_)
\* every upper/lower-case spelling of the word w
CaseVariants(w) ==
    IF w = "" THEN {""}
    ELSE {c \o r : c \in {Head(w), UpperChar(Head(w))}, r \in CaseVariants(Tail(w))}

\* the tags the lookup is called with: None, "", spellings of the table's
\* keys in any case, and tags that are no key
MaterialTags ==
    {None, Some("")}
    \cup {Some(t) : t \in CaseVariants("copper") \cup CaseVariants("aluminium")
                          \cup CaseVariants("aluminum") \cup CaseVariants("lead")
                          \cup CaseVariants("cu") \cup CaseVariants("al")}
    \cup {Some(" copper"), Some("copper "), Some("coper"), Some("aluminim"),
          Some("Copper conductor"), Some("None")}

LookupInit ==
    /\ text_chunks = <<>>
    /\ phase = "call"
    /\ text = ""
    /\ locals = NoLocals
    /\ result = NoResult
    /\ material \in MaterialTags
    /\ kb = <<None, None>>
    /\ pdf = NoPdf

Lookup ==
    /\ phase = "call"
    /\ kb' = infer_k_and_beta(material)
    /\ phase' = "returned"
    /\ UNCHANGED <<text_chunks, text, locals, result, material, pdf>>

LookupNext == Lookup

LookupSpec == LookupInit /\ [][LookupNext]_vars

-----------------------------------------------------------------------------
(* POST /api/generate_pdf: build_pdf_report draws the title and the two    *)
(* blocks.  Lengths are in units of 1/127 point: reportlab's mm is         *)
(* 72/25.4 = 360/127 points, so millimetres and points are both whole.     *)

pt == 127
mm == 360
height == 297 * mm
top_margin == 25 * mm
bottom_margin == 20 * mm

MaxBlockLines == 64
MaxSheathLines == 2

\* a text of n lines
RECURSIVE LinesText(_)
LinesText(n) ==
    IF n = 0 THEN "" ELSE IF n = 1 THEN "x" ELSE LinesText(n - 1) \o "\nx"

PdfInit ==
    /\ text_chunks = <<>>
    /\ phase = "pdf"
    /\ text = ""
    /\ locals = NoLocals
    /\ result = NoResult
    /\ material = None
    /\ kb = <<None, None>>
    /\ \E title \in {"", "Report"} :
       \E n1 \in 0..MaxBlockLines : \E n2 \in 0..MaxSheathLines :
           pdf = [pc |-> "title", title |-> title,
                  conductor_text |-> LinesText(n1), sheath_text |-> LinesText(n2),
                  page |-> 1, block |-> 0, lines |-> <<>>,
                  y |-> 0, text_y |-> 0,
                  drawn |-> [kind |-> "none", page |-> 0, y |-> 0, s |-> ""]]

\* c.drawCentredString of the title, c.line under it, text_y set
DrawTitle ==
    /\ phase = "pdf" /\ pdf.pc = "title"
    /\ pdf' = [pdf EXCEPT
                 !.drawn = [kind |-> "title", page |-> pdf.page,
                            y |-> height - top_margin,
                            s |-> IF pdf.title # "" THEN pdf.title
                                  ELSE "Cable Short Circuit Calculation"],
                 !.text_y = height - top_margin - 20 * pt,
                 !.block = 1,
                 !.pc = "heading"]
    /\ UNCHANGED <<text_chunks, phase, text, locals, result, material, kb>>

BlockHeading(b) ==
    IF b = 1 THEN "CONDUCTOR SHORT CIRCUIT CALCULATION"
    ELSE "SHEATH SHORT CIRCUIT CALCULATION"

\* draw_block up to its loop: the heading at start_y, y below it
DrawHeading ==
    /\ phase = "pdf" /\ pdf.pc = "heading"
    /\ LET block_text == IF pdf.block = 1 THEN pdf.conductor_text
                         ELSE pdf.sheath_text
       IN  pdf' = [pdf EXCEPT
                     !.drawn = [kind |-> "heading", page |-> pdf.page,
                                y |-> pdf.text_y, s |-> BlockHeading(pdf.block)],
                     !.y = pdf.text_y - 12 * pt,
                     !.lines = SplitLines(IF block_text = "" THEN "No data."
                                          ELSE block_text),
                     !.pc = "lines"]
    /\ UNCHANGED <<text_chunks, phase, text, locals, result, material, kb>>

\* one turn of draw_block's loop
DrawLine ==
    /\ phase = "pdf" /\ pdf.pc = "lines" /\ pdf.lines # <<>>
    /\ LET break == pdf.y < bottom_margin
           y == IF break THEN height - top_margin ELSE pdf.y
           page == IF break THEN pdf.page + 1 ELSE pdf.page
       IN  pdf' = [pdf EXCEPT
                     !.page = page,
                     !.drawn = [kind |-> "line", page |-> page, y |-> y,
                                s |-> Head(pdf.lines)],
                     !.y = y - 11 * pt,
                     !.lines = Tail(pdf.lines)]
    /\ UNCHANGED <<text_chunks, phase, text, locals, result, material, kb>>

\* draw_block returns y - 10; the next block, or showPage and save
EndBlock ==
    /\ phase = "pdf" /\ pdf.pc = "lines" /\ pdf.lines = <<>>
    /\ IF pdf.block = 1
       THEN pdf' = [pdf EXCEPT !.text_y = pdf.y - 10 * pt, !.block = 2,
                               !.pc = "heading"]
       ELSE pdf' = [pdf EXCEPT !.pc = "saved"]
    /\ UNCHANGED <<text_chunks, phase, text, locals, result, material, kb>>

PdfNext == DrawTitle \/ DrawHeading \/ DrawLine \/ EndBlock

PdfSpec == PdfInit /\ [][PdfNext]_vars

-----------------------------------------------------------------------------
(* Properties *)

DataModelFields ==
    {"voltageKv", "sccKa", "timeSec", "conductorMaterial", "sheathMaterial",
     "insulationMaterial", "outerSheathMaterial", "ratedVoltages", "kValue",
     "beta"}

IsNumber(v) == DOMAIN v = {"i", "f"} /\ v.i \in Nat /\ v.f \in 0..(FracUnit - 1)
IsOptNumber(o) == o = None \/ (Len(o) = 1 /\ IsNumber(o[1]))
IsOptString(o) == o = None \/ (Len(o) = 1 /\ o[1] \in STRING)

Copper226 == <<Some(Num(226)), Some([i |-> 234, f |-> FracUnit \div 2])>>
Aluminium148 == <<Some(Num(148)), Some(Num(228))>>

\* C1: every extraction returns a record holding every field of the data
\* model, each number field a number or null, each material field a string
\* or null, ratedVoltages a (possibly empty) list of numbers.
C1_RecordAlwaysComplete ==
    phase = "done" =>
        /\ DataModelFields \subseteq DOMAIN result
        /\ \A f \in {"voltageKv", "sccKa", "timeSec", "kValue", "beta"} :
               IsOptNumber(result[f])
        /\ \A f \in {"conductorMaterial", "sheathMaterial",
                     "insulationMaterial", "outerSheathMaterial"} :
               IsOptString(result[f])
        /\ \A k \in 1..Len(result.ratedVoltages) :
               IsNumber(result.ratedVoltages[k])

\* the empty text, extracted: every field null and the list empty
C1_Witness ==
    /\ phase = "done"
    /\ text = ""
    /\ \A f \in DataModelFields \ {"ratedVoltages"} : result[f] = None
    /\ result.ratedVoltages = <<>>

\* C2: kValue and beta are non-null exactly when conductorMaterial is a key
\* of the constant table, are null together, and are (226, 234.5) for Copper
\* and (148, 228) for Aluminium.
C2_ConstantsFollowConductor ==
    phase = "done" =>
        LET c == result.conductorMaterial
            known == c # None /\ Val(c) \in {"Copper", "Aluminium"}
        IN  /\ (result.kValue # None /\ result.beta # None) <=> known
            /\ (result.kValue = None) <=> (result.beta = None)
            /\ c = Some("Copper") =>
                   <<result.kValue, result.beta>> = Copper226
            /\ c = Some("Aluminium") =>
                   <<result.kValue, result.beta>> = Aluminium148

C2_Witness ==
    /\ phase = "done"
    /\ result.conductorMaterial = Some("Aluminium")
    /\ result.kValue = Some(Num(148))
    /\ result.beta = Some(Num(228))

IsSpelling(tag, words) ==
    tag # None /\ \E w \in words : Val(tag) \in CaseVariants(w)

\* C3 as stated: Copper and Aluminium in any case give their constants and
\* every other tag, any other spelling included, gives (None, None).
C3_OnlyCopperAndAluminium ==
    phase = "returned" =>
        IF IsSpelling(material, {"copper"}) THEN kb = Copper226
        ELSE IF IsSpelling(material, {"aluminium"}) THEN kb = Aluminium148
        ELSE kb = <<None, None>>

\* C3 amended: the table also holds the spelling Aluminum; Copper gives
\* (226, 234.5), Aluminium and Aluminum give (148, 228), in any case, and
\* every other tag, null and "" included, gives (None, None).
C3_LookupTable ==
    phase = "returned" =>
        IF IsSpelling(material, {"copper"}) THEN kb = Copper226
        ELSE IF IsSpelling(material, {"aluminium", "aluminum"})
        THEN kb = Aluminium148
        ELSE kb = <<None, None>>

C3_Witness ==
    /\ phase = "returned"
    /\ material = Some("ALUMINUM")
    /\ kb = Aluminium148

\* C4 as stated: every material field is null or a member of its declared
\* enumeration, spelled as declared.
C4_MaterialsSpelledAsDeclared ==
    phase = "done" =>
        /\ result.conductorMaterial \in
               {None, Some("Copper"), Some("Aluminium")}
        /\ result.sheathMaterial \in
               {None, Some("Copper"), Some("Aluminium"), Some("Lead"),
                Some("Steel"), Some("Bronze")}
        /\ result.insulationMaterial \in
               {None, Some("XLPE"), Some("EPR"), Some("PVC"), Some("PE"),
                Some("Oil")}
        /\ result.outerSheathMaterial \in
               {None, Some("XLPE"), Some("EPR"), Some("PVC"), Some("PE"),
                Some("Oil")}

\* the three conductor detectors applied to the text again
HeaderConductorOf(t) ==
    extract_conductor_and_sheath_material_from_header(
        get_first_nonempty_lines(t, 8))[1]
GlobalConductorOf(t) == detect_conductor_material_global(t)
HeaderMaterialOf(t) ==
    extract_header_voltage_and_material(get_first_nonempty_lines(t, 8))[2]
HeaderVoltageOf(t) ==
    extract_header_voltage_and_material(get_first_nonempty_lines(t, 8))[1]

\* C5: conductorMaterial is the header-scoped detector's result when it has
\* one, else the global detector's when it has one, else the header generic
\* detector's; a lower detector never overrides a higher one.
C5_ConductorPrecedence ==
    phase = "done" =>
        LET h == HeaderConductorOf(text)
            g == GlobalConductorOf(text)
            m == HeaderMaterialOf(text)
        IN  result.conductorMaterial =
                IF h # None THEN h ELSE IF g # None THEN g ELSE m

\* the header-scoped detector says Aluminium, the global scan and the
\* generic header detector say Copper, and Aluminium is returned
C5_Witness ==
    /\ phase = "done"
    /\ HeaderConductorOf(text) = Some("Aluminium")
    /\ GlobalConductorOf(text) = Some("Copper")
    /\ HeaderMaterialOf(text) = Some("Copper")
    /\ result.conductorMaterial = Some("Aluminium")

StandardVoltages == <<400, 220, 132, 66, 33, 11>>

\* |v - p| < 10^-6
Within1e6(v, p) ==
    \/ v.i = p /\ v.f * 1000000 < FracUnit
    \/ v.i = p - 1 /\ (FracUnit - v.f) * 1000000 < FracUnit

Occurs(rated, p) == \E k \in 1..Len(rated) : Within1e6(rated[k], p)

\* C6: with a non-empty rated-voltage list the main voltage is an element
\* of the list: one within 1e-6 of the earliest standard voltage that
\* occurs in it, or the maximum when none occurs; with an empty list it is
\* the header voltage detector's result.
C6_MainVoltage ==
    phase = "done" =>
        LET rated == result.ratedVoltages
            v == result.voltageKv
            std == {n \in 1..Len(StandardVoltages) :
                        Occurs(rated, StandardVoltages[n])}
        IN  IF rated = <<>> THEN v = HeaderVoltageOf(text)
            ELSE /\ v # None
                 /\ \E k \in 1..Len(rated) : rated[k] = Val(v)
                 /\ IF std # {}
                    THEN Within1e6(Val(v), StandardVoltages[Least(std)])
                    ELSE \A k \in 1..Len(rated) : ~Less(Val(v), rated[k])

\* 220/400/420 under a 132 kV header: 400 is chosen, the header ignored
C6_Witness ==
    /\ phase = "done"
    /\ result.ratedVoltages = <<Num(220), Num(400), Num(420)>>
    /\ HeaderVoltageOf(text) = Some(Num(132))
    /\ result.voltageKv = Some(Num(400))

CableTitleLine == "400kV AL 1Cx2500SQmm XLPE INSULATED CABLE"

\* the first line of t that is not blank, as written
FirstNonEmptyLine(t) ==
    LET ls == SplitLines(t)
        K == {k \in 1..Len(ls) : Strip(ls[k]) # ""}
    IN  IF K = {} THEN None ELSE Some(ls[Least(K)])

HasWord(lower, w) ==
    \E i \in 1..Len(lower) :
        StartsAt(lower, i, w) /\ Boundary(lower, i) /\ Boundary(lower, i + Len(w))

NoCopperCue(t) ==
    LET lower == Lower(t)
    IN  /\ ~Contains(lower, "copper")
        /\ ~Contains(lower, "cu conductor")
        /\ ~HasWord(lower, "cu")

TitleLineRecord ==
    /\ result.conductorMaterial = Some("Aluminium")
    /\ result.ratedVoltages = <<>> =>
           /\ result.voltageKv = Some(Num(400))
           /\ result.insulationMaterial = Some("XLPE")

\* C7 as stated: with the title line first, whatever follows, the
\* conductor is Aluminium (and 400 kV, XLPE without a rated-voltage list).
C7_TitleLineAlwaysAluminium ==
    (phase = "done" /\ FirstNonEmptyLine(text) = Some(CableTitleLine))
        => TitleLineRecord

\* C7 amended: with the title line first and, in the whole text, no
\* "copper", no "cu conductor" and no word "cu" (in any case), the
\* conductor is Aluminium (and 400 kV, XLPE without a rated-voltage list).
C7_TitleLineAluminium ==
    (/\ phase = "done"
     /\ FirstNonEmptyLine(text) = Some(CableTitleLine)
     /\ NoCopperCue(text))
        => TitleLineRecord

\* the title line followed by a page of other lines, without a rated list
C7_Witness ==
    /\ phase = "done"
    /\ FirstNonEmptyLine(text) = Some(CableTitleLine)
    /\ NoCopperCue(text)
    /\ Len(SplitLines(text)) > 1
    /\ result.ratedVoltages = <<>>
    /\ result.conductorMaterial = Some("Aluminium")
    /\ result.voltageKv = Some(Num(400))
    /\ result.insulationMaterial = Some("XLPE")

HasKA(line) == Contains(Lower(line), "k") /\ Contains(Lower(line), "a")
IsKeywordLine(line) ==
    \E w \in {"short", "circuit", "fault", "ik", "isc"} : Contains(Lower(line), w)

\* the numeric tokens of a line with both k and a that lie in (0, 1000)
CandidatesOf(line) ==
    IF ~HasKA(line) THEN {}
    ELSE LET vals == Floats(FindNums(line, 1, {".", ","}))
         IN  {vals[k] : k \in {n \in 1..Len(vals) :
                  /\ vals[n].i < 1000
                  /\ (vals[n].i > 0 \/ vals[n].f > 0)}}

KeywordCandidates(t) ==
    LET ls == SplitLines(t)
    IN  UNION {CandidatesOf(ls[k]) : k \in {n \in 1..Len(ls) : IsKeywordLine(ls[n])}}
AllCandidates(t) ==
    LET ls == SplitLines(t) IN UNION {CandidatesOf(ls[k]) : k \in 1..Len(ls)}

Greatest(S) == CHOOSE m \in S : \A v \in S : ~Less(m, v)

\* C8: sccKa is the greatest candidate of the keyword lines when they hold
\* one (candidates of other lines ignored), else the greatest candidate of
\* all lines, and null exactly when no line holds a candidate.
C8_ShortCircuitCurrent ==
    phase = "done" =>
        LET kw == KeywordCandidates(text)
            all == AllCandidates(text)
        IN  /\ result.sccKa =
                   IF kw # {} THEN Some(Greatest(kw))
                   ELSE IF all # {} THEN Some(Greatest(all))
                   ELSE None
            /\ (result.sccKa = None) <=> (all = {})

\* a keyword line gives 40 while another line holds a larger candidate
C8_Witness ==
    /\ phase = "done"
    /\ KeywordCandidates(text) # {}
    /\ \E v \in AllCandidates(text) : Less(Greatest(KeywordCandidates(text)), v)
    /\ result.sccKa = Some(Num(40))

StrongPhrases ==
    {"copper conductor", "cu conductor", "aluminium conductor",
     "aluminum conductor", "al conductor"}
NoStrongPhrase(t) == \A ph \in StrongPhrases : ~Contains(Lower(t), ph)
CopperFamily(t) == \E w \in {"copper", " cu "} : Contains(Lower(t), w)
AluminiumFamily(t) ==
    \E w \in {"aluminium", "aluminum", " al "} : Contains(Lower(t), w)

\* C9: without a strong phrase the global detector returns the one family
\* that appears and nothing when both or neither appear; when both appear
\* and the header has no generic material cue, conductorMaterial is the
\* header-scoped detector's result (null if it has none).
C9_WeakFallback ==
    (phase = "done" /\ NoStrongPhrase(text)) =>
        LET cu == CopperFamily(text)
            al == AluminiumFamily(text)
        IN  /\ GlobalConductorOf(text) =
                   IF cu /\ ~al THEN Some("Copper")
                   ELSE IF al /\ ~cu THEN Some("Aluminium")
                   ELSE None
            /\ (cu /\ al /\ HeaderMaterialOf(text) = None) =>
                   result.conductorMaterial = HeaderConductorOf(text)

\* both families below a header without cue: the header pattern decides
C9_Witness ==
    /\ phase = "done"
    /\ NoStrongPhrase(text)
    /\ CopperFamily(text) /\ AluminiumFamily(text)
    /\ HeaderMaterialOf(text) = None
    /\ GlobalConductorOf(text) = None
    /\ HeaderConductorOf(text) = Some("Aluminium")
    /\ result.conductorMaterial = Some("Aluminium")

\* C10 as stated: every block heading and every text line is drawn at
\* y >= bottom_margin.
C10_NothingBelowBottomMargin ==
    (phase = "pdf" /\ pdf.pc # "title" /\ pdf.drawn.kind \in {"heading", "line"})
        => pdf.drawn.y >= bottom_margin

=============================================================================
